---- MODULE Spec2Model ----
(***************************************************************************)
(* Model of simulation/metrics.py: the confusion-count primitive           *)
(* get_true_false, the FROC curve builder calc_froc and the per-subject    *)
(* EMD aggregation emd_score_subjects.                                     *)
(*                                                                         *)
(* Arrays are sequences (index 1 is numpy index 0).  A 2-D array is a      *)
(* sequence of rows.  Scores are integers in hundredths (0.35 is 35).      *)
(* A float quotient a / b is kept as the exact pair numerator,             *)
(* denominator.  A call that raises returns a record whose field raised    *)
(* names the exception; "none" is a normal return.                         *)
(***************************************************************************)
EXTENDS Integers, Naturals, Sequences, FiniteSets, TLC

VARIABLES pc, gtf_true, gtf_pred, gtf_ret,
          froc_y_true, froc_y_score, froc_ret,
          emd_subjects, emd_shape_true, emd_shape_pred, emd_ret

vars == <<pc, gtf_true, gtf_pred, gtf_ret,
          froc_y_true, froc_y_score, froc_ret,
          emd_subjects, emd_shape_true, emd_shape_pred, emd_ret>>

(* ------------------------------ bounds -------------------------------- *)

\* longest 1-d signal handed to get_true_false
MaxLen == 3
\* largest number of entries (rows * columns) of a calc_froc matrix
MaxEntries == 4
\* widest calc_froc matrix (n_sources)
MaxSources == 2
\* longest subjects array handed to emd_score_subjects
MaxRows == 3
\* widest y_true / y_pred handed to emd_score_subjects
MaxCols == 2
\* subject identifiers are 1..NumSubjects
NumSubjects == 2
\* the external emd_score returns a value in 0..MaxEmd
MaxEmd == 2

(* ------------------------------ inputs -------------------------------- *)

SeqsUpTo(S, n) == UNION {[1..k -> S] : k \in 0..n}

BinarySignals == SeqsUpTo({0, 1}, MaxLen)

\* class labels of a calc_froc label matrix: the two classes 0 and 1, and a
\* third one
Labels == {0, 1, 2}

\* score values, in hundredths: 0.1, 0.35, 0.4, 0.8
ScoreValues == {10, 35, 40, 80}

\* (n_samples, n_sources) of the matrices handed to calc_froc
FrocShapes == {sh \in (1..MaxEntries) \X (1..MaxSources) :
                 sh[1] * sh[2] <= MaxEntries}

Matrices(sh, S) == [1..sh[1] -> [1..sh[2] -> S]]

Subjects == 1..NumSubjects

EmdShapes == (0..MaxRows) \X (1..MaxCols)

(* --------------------------- numpy helpers ---------------------------- *)

Reverse(s) == [i \in 1..Len(s) |-> s[Len(s) + 1 - i]]

Values(s) == {s[i] : i \in DOMAIN s}

SetMin(S) == CHOOSE m \in S : \A x \in S : m <= x

RECURSIVE SortedSeq(_)
SortedSeq(S) == IF S = {} THEN <<>>
                ELSE <<SetMin(S)>> \o SortedSeq(S \ {SetMin(S)})

\* number of positions of s holding v: the count np.unique(...,
\* return_counts=True) reports for v, and 0 when v is absent (IndexError)
CountOf(s, v) == Cardinality({i \in DOMAIN s : s[i] = v})

RECURSIVE Ravel(_)
Ravel(m) == IF m = <<>> THEN <<>> ELSE Head(m) \o Ravel(Tail(m))

\* length of the elementwise result of two 1-d arrays under numpy
\* broadcasting; -1 when the shapes cannot be broadcast together
BroadcastLen(a, b) == IF Len(a) = Len(b) THEN Len(a)
                      ELSE IF Len(a) = 1 THEN Len(b)
                      ELSE IF Len(b) = 1 THEN Len(a)
                      ELSE -1

BroadcastAt(a, i) == IF Len(a) = 1 THEN a[1] ELSE a[i]

(* --------------------------- get_true_false --------------------------- *)

GtfRaise(e) == [raised |-> e, tp |-> 0, tn |-> 0, fp |-> 0, fn |-> 0]

\* faulty variant: false_negative counted from sum == 1 instead of sum == 0
get_true_false_miscount(true_signal, pred_signal) ==
  LET n == BroadcastLen(true_signal, pred_signal) IN
  IF n = -1 THEN GtfRaise("ValueError")
  ELSE
    LET diff == [i \in 1..n |->
                   BroadcastAt(true_signal, i) - BroadcastAt(pred_signal, i)]
        sum  == [i \in 1..n |->
                   BroadcastAt(true_signal, i) + BroadcastAt(pred_signal, i)]
        false_positive == CountOf(diff, -1)
        true_negative  == CountOf(diff, 1)
        true_positive  == CountOf(sum, 2)
        false_negative == CountOf(sum, 1)
    IN IF Len(true_signal) # true_positive + true_negative
                             + false_positive + false_negative
       THEN GtfRaise("AssertionError")
       ELSE [raised |-> "none", tp |-> true_positive, tn |-> true_negative,
             fp |-> false_positive, fn |-> false_negative]

get_true_false(true_signal, pred_signal) ==
  LET n == BroadcastLen(true_signal, pred_signal) IN
  IF n = -1 THEN GtfRaise("ValueError")
  ELSE
    LET diff == [i \in 1..n |->
                   BroadcastAt(true_signal, i) - BroadcastAt(pred_signal, i)]
        sum  == [i \in 1..n |->
                   BroadcastAt(true_signal, i) + BroadcastAt(pred_signal, i)]
        false_positive == CountOf(diff, -1)
        true_negative  == CountOf(diff, 1)
        true_positive  == CountOf(sum, 2)
        false_negative == CountOf(sum, 0)
    IN IF Len(true_signal) # true_positive + true_negative
                             + false_positive + false_negative
       THEN GtfRaise("AssertionError")
       ELSE [raised |-> "none", tp |-> true_positive, tn |-> true_negative,
             fp |-> false_positive, fn |-> false_negative]

(* ----------------------------- calc_froc ------------------------------ *)

FrocRaise(e) == [raised |-> e, ts |-> <<>>, n_pos |-> 0, tfp |-> <<>>,
                 n_samples |-> 0, thresholds |-> <<>>]

\* np.unique(y_score): the distinct scores, ascending
UniqueSorted(flat) == SortedSeq(Values(flat))

\* np.unique(y_score, return_index=True): for each distinct score the index
\* of its first occurrence in the flattened array
FirstIndices(flat) ==
  LET u == UniqueSorted(flat) IN
  [k \in 1..Len(u) |->
     SetMin({i \in DOMAIN flat : flat[i] = u[k]})]

\* faulty variant: the rows left in np.unique's order, lowest score first
SortedSignalUnreversed(flat_true, flat_score) ==
  LET idc == FirstIndices(flat_score) IN
  [k \in 1..Len(idc) |-> <<flat_score[idc[k]], flat_true[idc[k]]>>]

\* signal[indicesList, :][::-1]: one (score, label) row per distinct score,
\* highest score first
SortedSignal(flat_true, flat_score) ==
  LET idc == FirstIndices(flat_score) IN
  Reverse([k \in 1..Len(idc) |-> <<flat_score[idc[k]], flat_true[idc[k]]>>])

\* faulty variant: t_est taken with > instead of >=
ThresholdStrict(sorted_signal, score) ==
  [j \in 1..Len(sorted_signal) |->
     IF sorted_signal[j][1] > score THEN 1 ELSE 0]

\* t_est = sorted_signal[:, 0] >= score, as 0/1
Threshold(sorted_signal, score) ==
  [j \in 1..Len(sorted_signal) |->
     IF sorted_signal[j][1] >= score THEN 1 ELSE 0]

\* faulty variant: the thresholds returned as np.unique sorted them
ReturnedThresholdsUnreversed(thresholds) == thresholds

\* the thresholds as returned: thresholds[::-1]
ReturnedThresholds(thresholds) == Reverse(thresholds)

calc_froc(y_true, y_score) ==
  LET n_samples == Len(y_true)
      flat_true == Ravel(y_true)
      flat_score == Ravel(y_score)
      classes == UniqueSorted(flat_true)
  IN
  IF Len(classes) < 2 THEN FrocRaise("IndexError")
  ELSE
    LET n_pos == CountOf(flat_true, classes[2]) IN
    IF Len(classes) # 2 THEN FrocRaise("ValueError")
    ELSE
      LET thresholds == UniqueSorted(flat_score)
          sorted_signal == SortedSignal(flat_true, flat_score)
          labels == [j \in 1..Len(sorted_signal) |-> sorted_signal[j][2]]
          sweep == [idx \in 1..Len(sorted_signal) |->
                      get_true_false(labels,
                        Threshold(sorted_signal, sorted_signal[idx][1]))]
      IN
      IF \E idx \in DOMAIN sweep : sweep[idx].raised # "none"
      THEN FrocRaise(sweep[SetMin({idx \in DOMAIN sweep :
                                     sweep[idx].raised # "none"})].raised)
      ELSE [raised |-> "none",
            ts |-> [idx \in DOMAIN sweep |-> sweep[idx].tp],
            n_pos |-> n_pos,
            tfp |-> [idx \in DOMAIN sweep |-> sweep[idx].fp],
            n_samples |-> n_samples,
            thresholds |-> ReturnedThresholds(thresholds)]

(* ------------------------- emd_score_subjects ------------------------- *)

EmdRaise(e, calls) == [raised |-> e, calls |-> calls, score |-> <<0, 1>>]

\* what one emd_score_subj call can do: np.load fails because the subject's
\* label file is absent (-1), or emd_score returns a value
EmdOutcomes == {-1} \cup (0..MaxEmd)

\* np.where(subjects == subject)[0]: the row indices of one subject, ascending
SubjectRows(subjects, subject) ==
  SortedSeq({i \in DOMAIN subjects : subjects[i] = subject})

\* faulty variant: every subject weighted 1 / (number of distinct subjects)
WeightUniform(sbj_idc, subjects) == <<1, Cardinality(Values(subjects))>>

\* len(sbj_idc) / len(subjects), as numerator and denominator
Weight(sbj_idc, subjects) == <<Len(sbj_idc), Len(subjects)>>

\* np.sum over an array of quotients; the empty sum is 0
RECURSIVE RatSum(_)
RatSum(qs) == IF qs = <<>> THEN <<0, 1>>
              ELSE LET r == RatSum(Tail(qs))
                       q == Head(qs)
                   IN <<q[1] * r[2] + r[1] * q[2], q[2] * r[2]>>

\* the two assertions on the arguments: len(subjects) == len(y_true) ==
\* len(y_pred), and y_true.shape == y_pred.shape
ShapesAgree(subjects, shape_true, shape_pred) ==
  /\ Len(subjects) = shape_true[1] /\ shape_true[1] = shape_pred[1]
  /\ shape_true = shape_pred

\* outcome[subject] is what emd_score_subj does when called for subject
emd_score_subjects(subjects, shape_true, shape_pred, dir_exists, outcome) ==
  IF ~ShapesAgree(subjects, shape_true, shape_pred)
  THEN EmdRaise("AssertionError", <<>>)
  ELSE IF ~dir_exists THEN EmdRaise("AssertionError", <<>>)
  ELSE
    LET unique_subj == UniqueSorted(subjects)
        call == [idx \in 1..Len(unique_subj) |->
                   [subject |-> unique_subj[idx],
                    sbj_idc |-> SubjectRows(subjects, unique_subj[idx]),
                    score |-> outcome[unique_subj[idx]]]]
        failed == {idx \in DOMAIN call : call[idx].score = -1}
    IN
    IF failed # {}
    THEN EmdRaise("FileNotFoundError", SubSeq(call, 1, SetMin(failed)))
    ELSE [raised |-> "none",
          calls |-> call,
          score |-> RatSum([idx \in DOMAIN call |->
                      LET w == Weight(call[idx].sbj_idc, subjects)
                      IN <<call[idx].score * w[1], w[2]>>])]

(* ------------------------------ actions ------------------------------- *)

Init ==
  /\ pc = "idle"
  /\ gtf_true = <<>>
  /\ gtf_pred = <<>>
  /\ gtf_ret = GtfRaise("none")
  /\ froc_y_true = <<>>
  /\ froc_y_score = <<>>
  /\ froc_ret = FrocRaise("none")
  /\ emd_subjects = <<>>
  /\ emd_shape_true = <<0, 1>>
  /\ emd_shape_pred = <<0, 1>>
  /\ emd_ret = EmdRaise("none", <<>>)

\* a caller runs get_true_false on two 0/1 signals
CallGetTrueFalse ==
  /\ pc = "idle"
  /\ \E t \in BinarySignals, p \in BinarySignals :
       /\ gtf_true' = t
       /\ gtf_pred' = p
       /\ gtf_ret' = get_true_false(t, p)
  /\ pc' = "get_true_false"
  /\ UNCHANGED <<froc_y_true, froc_y_score, froc_ret,
                 emd_subjects, emd_shape_true, emd_shape_pred, emd_ret>>

\* a caller runs calc_froc on a label matrix and a score matrix of its shape
CallCalcFroc ==
  /\ pc = "idle"
  /\ \E sh \in FrocShapes :
       \E yt \in Matrices(sh, Labels), ys \in Matrices(sh, ScoreValues) :
         /\ froc_y_true' = yt
         /\ froc_y_score' = ys
         /\ froc_ret' = calc_froc(yt, ys)
  /\ pc' = "calc_froc"
  /\ UNCHANGED <<gtf_true, gtf_pred, gtf_ret,
                 emd_subjects, emd_shape_true, emd_shape_pred, emd_ret>>

\* a caller runs emd_score_subjects; the file system and the external
\* emd_score answer as they may, and are asked only once the assertions on
\* the arguments have passed
CallEmdScoreSubjects ==
  /\ pc = "idle"
  /\ \E s \in SeqsUpTo(Subjects, MaxRows),
        st \in EmdShapes, sp \in EmdShapes :
     \E dir_exists \in IF ShapesAgree(s, st, sp) THEN BOOLEAN ELSE {TRUE} :
     \E outcome \in IF ShapesAgree(s, st, sp) /\ dir_exists
                     THEN [Values(s) -> EmdOutcomes]
                     ELSE {[x \in Values(s) |-> 0]} :
       /\ emd_subjects' = s
       /\ emd_shape_true' = st
       /\ emd_shape_pred' = sp
       /\ emd_ret' = emd_score_subjects(s, st, sp, dir_exists, outcome)
  /\ pc' = "emd_score_subjects"
  /\ UNCHANGED <<gtf_true, gtf_pred, gtf_ret,
                 froc_y_true, froc_y_score, froc_ret>>

\* the call is over; the next one starts from scratch
Return ==
  /\ pc # "idle"
  /\ pc' = "idle"
  /\ gtf_true' = <<>>
  /\ gtf_pred' = <<>>
  /\ gtf_ret' = GtfRaise("none")
  /\ froc_y_true' = <<>>
  /\ froc_y_score' = <<>>
  /\ froc_ret' = FrocRaise("none")
  /\ emd_subjects' = <<>>
  /\ emd_shape_true' = <<0, 1>>
  /\ emd_shape_pred' = <<0, 1>>
  /\ emd_ret' = EmdRaise("none", <<>>)

Next == CallGetTrueFalse \/ CallCalcFroc \/ CallEmdScoreSubjects \/ Return

Spec == Init /\ [][Next]_vars

(* ---------------------- get_true_false: claims ----------------------- *)

\* C1: for every pair of equal-length 0/1 signals (the empty, the all-0 and
\* the all-1 ones included) get_true_false returns normally and
\* tp + tn + fp + fn = len(true_signal).
C1_CountsSumToLength ==
  (pc = "get_true_false" /\ Len(gtf_true) = Len(gtf_pred)) =>
    /\ gtf_ret.raised = "none"
    /\ gtf_ret.tp + gtf_ret.tn + gtf_ret.fp + gtf_ret.fn = Len(gtf_true)

C1_Witness ==
  /\ pc = "get_true_false"
  /\ Len(gtf_true) = 3 /\ Len(gtf_pred) = 3
  /\ gtf_ret.raised = "none"
  /\ gtf_ret.tp = 1 /\ gtf_ret.fp = 1 /\ gtf_ret.tn = 1

\* C2: when pred_signal equals true_signal element for element,
\* get_true_false returns fp = 0, fn = 0, tp = the number of 1s of
\* true_signal and tn = the number of 0s of true_signal.
C2_AllCorrect ==
  (pc = "get_true_false" /\ gtf_pred = gtf_true) =>
    /\ gtf_ret.raised = "none"
    /\ gtf_ret.fp = 0 /\ gtf_ret.fn = 0
    /\ gtf_ret.tp = CountOf(gtf_true, 1)
    /\ gtf_ret.tn = CountOf(gtf_true, 0)

\* C3: when pred_signal is 1 - true_signal at every position,
\* get_true_false returns tp = 0 and tn = 0.
C3_AllIncorrect ==
  (/\ pc = "get_true_false"
   /\ Len(gtf_pred) = Len(gtf_true)
   /\ \A i \in DOMAIN gtf_true : gtf_pred[i] = 1 - gtf_true[i]) =>
    /\ gtf_ret.raised = "none"
    /\ gtf_ret.tp = 0 /\ gtf_ret.tn = 0

(* ------------------------- calc_froc: claims -------------------------- *)

FlatTrue == Ravel(froc_y_true)

FlatScore == Ravel(froc_y_score)

\* the call of calc_froc on a 0/1 label matrix has returned a curve
FrocReturned01 ==
  /\ pc = "calc_froc"
  /\ Values(FlatTrue) \subseteq {0, 1}
  /\ froc_ret.raised = "none"

\* number of entries, among the flattened positions J, with the given label
\* and a score of at least t
CountAtLeast(J, label, t) ==
  Cardinality({j \in J : FlatTrue[j] = label /\ FlatScore[j] >= t})

\* C4: at every swept threshold t the curve point is (entries with label 1
\* and score >= t, over ALL flattened entries) / (label-1 entries) and
\* (entries with label 0 and score >= t, over ALL flattened entries) /
\* (row count), also when several entries share a score.
C4_CountsOverAllEntries ==
  FrocReturned01 =>
    /\ froc_ret.n_pos = CountOf(FlatTrue, 1)
    /\ froc_ret.n_samples = Len(froc_y_true)
    /\ \A i \in DOMAIN froc_ret.thresholds :
         /\ froc_ret.ts[i] =
              CountAtLeast(DOMAIN FlatScore, 1, froc_ret.thresholds[i])
         /\ froc_ret.tfp[i] =
              CountAtLeast(DOMAIN FlatScore, 0, froc_ret.thresholds[i])

\* the scenario y_true = [[0],[0],[1],[1]], y_score = [[0.1],[0.4],[0.35],[0.8]]
FrocScenario ==
  /\ pc = "calc_froc"
  /\ froc_y_true = << <<0>>, <<0>>, <<1>>, <<1>> >>
  /\ froc_y_score = << <<10>>, <<40>>, <<35>>, <<80>> >>

\* C5 as stated: the returned thresholds are ascending, threshold[i] <
\* threshold[i+1], and [0.1, 0.35, 0.4, 0.8] in the scenario.
C5_ThresholdsAscending ==
  (pc = "calc_froc" /\ froc_ret.raised = "none") =>
    /\ \A i \in 1..(Len(froc_ret.thresholds) - 1) :
         froc_ret.thresholds[i] < froc_ret.thresholds[i + 1]
    /\ FrocScenario => froc_ret.thresholds = <<10, 35, 40, 80>>

\* C5 amended: the returned thresholds are descending, threshold[i] >
\* threshold[i+1], and [0.8, 0.4, 0.35, 0.1] in the scenario.
C5_ThresholdsDescending ==
  (pc = "calc_froc" /\ froc_ret.raised = "none") =>
    /\ \A i \in 1..(Len(froc_ret.thresholds) - 1) :
         froc_ret.thresholds[i] > froc_ret.thresholds[i + 1]
    /\ FrocScenario => froc_ret.thresholds = <<80, 40, 35, 10>>

C5_Witness ==
  /\ FrocScenario
  /\ froc_ret.raised = "none"
  /\ Len(froc_ret.thresholds) = 4

\* the flattened positions calc_froc keeps: the first occurrence of each score
KeptEntries ==
  {j \in DOMAIN FlatScore : \A k \in 1..(j - 1) : FlatScore[k] # FlatScore[j]}

\* C6: the three returned sequences have the length of the set of distinct
\* scores, and at every index i the sensitivity and false-positive counts
\* are the ones of the thresholded signal at exactly thresholds[i].
C6_IndexAligned ==
  FrocReturned01 =>
    /\ Len(froc_ret.thresholds) = Cardinality(Values(FlatScore))
    /\ Len(froc_ret.ts) = Len(froc_ret.thresholds)
    /\ Len(froc_ret.tfp) = Len(froc_ret.thresholds)
    /\ \A i \in DOMAIN froc_ret.thresholds :
         /\ froc_ret.ts[i] =
              CountAtLeast(KeptEntries, 1, froc_ret.thresholds[i])
         /\ froc_ret.tfp[i] =
              CountAtLeast(KeptEntries, 0, froc_ret.thresholds[i])

C6_Witness ==
  /\ FrocReturned01
  /\ Len(FlatScore) = 4
  /\ Len(froc_ret.thresholds) = 3
  /\ froc_ret.ts[1] < froc_ret.ts[2]
  /\ froc_ret.tfp[2] < froc_ret.tfp[3]

\* C7: for every y_true whose number of distinct values is not exactly two
\* (one value, or three and more) calc_froc fails with the ValueError
\* "FROC is defined for binary classification only".
C7_NotTwoClassesValueError ==
  (pc = "calc_froc" /\ Cardinality(Values(FlatTrue)) # 2) =>
    froc_ret.raised = "ValueError"

\* every label-1 entry scores strictly higher than every label-0 entry
PerfectSeparation ==
  /\ Values(FlatTrue) = {0, 1}
  /\ \A i, j \in DOMAIN FlatTrue :
       (FlatTrue[i] = 1 /\ FlatTrue[j] = 0) => FlatScore[i] > FlatScore[j]

\* C8: under perfect separation (ties among equal-label entries allowed)
\* the sensitivity is 1.0 at the end of the sweep, and some swept threshold
\* has sensitivity 1.0 with zero false positives.
C8_PerfectSeparationReachesOne ==
  (pc = "calc_froc" /\ PerfectSeparation) =>
    /\ froc_ret.raised = "none"
    /\ froc_ret.ts # <<>>
    /\ froc_ret.ts[Len(froc_ret.ts)] = froc_ret.n_pos
    /\ \E i \in DOMAIN froc_ret.ts :
         froc_ret.ts[i] = froc_ret.n_pos /\ froc_ret.tfp[i] = 0

\* C11: along the sweep from the highest threshold to the lowest the
\* true-positive and the false-positive counts (hence sensitivity and
\* false positives per sample) never decrease, every sensitivity is in
\* [0, 1] and every false-positives-per-sample value is >= 0.
C11_SweepMonotone ==
  FrocReturned01 =>
    /\ froc_ret.n_pos > 0
    /\ froc_ret.n_samples > 0
    /\ \A i, j \in DOMAIN froc_ret.thresholds :
         froc_ret.thresholds[i] > froc_ret.thresholds[j] =>
           /\ froc_ret.ts[i] <= froc_ret.ts[j]
           /\ froc_ret.tfp[i] <= froc_ret.tfp[j]
    /\ \A i \in 1..(Len(froc_ret.ts) - 1) :
         /\ froc_ret.ts[i] <= froc_ret.ts[i + 1]
         /\ froc_ret.tfp[i] <= froc_ret.tfp[i + 1]
    /\ \A i \in DOMAIN froc_ret.ts :
         /\ 0 <= froc_ret.ts[i] /\ froc_ret.ts[i] <= froc_ret.n_pos
         /\ 0 <= froc_ret.tfp[i]

C11_Witness ==
  /\ FrocReturned01
  /\ Len(froc_ret.ts) = 4
  /\ froc_ret.ts[1] = 0 /\ froc_ret.ts[4] = froc_ret.n_pos
  /\ froc_ret.tfp[1] < froc_ret.tfp[2]
  /\ froc_ret.tfp[3] = froc_ret.tfp[4]

(* -------------------- mismatches and EMD: claims ---------------------- *)

\* C9: a length or shape mismatch always raises: get_true_false for every
\* pair of signals of different lengths (one of them of length 1 included),
\* emd_score_subjects whenever the lengths or the shapes differ, before any
\* per-subject score is computed.
C9_MismatchRaises ==
  /\ (pc = "get_true_false" /\ Len(gtf_true) # Len(gtf_pred)) =>
       gtf_ret.raised # "none"
  /\ (/\ pc = "emd_score_subjects"
      /\ \/ Len(emd_subjects) # emd_shape_true[1]
         \/ Len(emd_subjects) # emd_shape_pred[1]
         \/ emd_shape_true # emd_shape_pred) =>
       (emd_ret.raised # "none" /\ emd_ret.calls = <<>>)

RECURSIVE SeqSum(_)
SeqSum(s) == IF s = <<>> THEN 0 ELSE Head(s) + SeqSum(Tail(s))

\* C10: emd_score_subjects returns the sum over the distinct subjects s of
\* emd_score_subj(rows of s) * (rows of s) / (all rows); every row is in
\* exactly one subject's group, the weights sum to 1, and with one distinct
\* subject the result is emd_score_subj of the whole data.
C10_RowWeightedSum ==
  (pc = "emd_score_subjects" /\ emd_ret.raised = "none") =>
    LET n == Len(emd_subjects)
        calls == emd_ret.calls
        rows(idx) == Values(calls[idx].sbj_idc)
    IN
    /\ Len(calls) = Cardinality(Values(emd_subjects))
    /\ \A s \in Values(emd_subjects) :
         Cardinality({idx \in DOMAIN calls : calls[idx].subject = s}) = 1
    /\ \A i \in 1..n :
         /\ Cardinality({idx \in DOMAIN calls : i \in rows(idx)}) = 1
         /\ \A idx \in DOMAIN calls :
              i \in rows(idx) <=> calls[idx].subject = emd_subjects[i]
    /\ SeqSum([idx \in DOMAIN calls |-> Len(calls[idx].sbj_idc)]) = n
    /\ emd_ret.score[2] # 0
    /\ emd_ret.score[1] * (IF n = 0 THEN 1 ELSE n) =
         emd_ret.score[2] *
           SeqSum([idx \in DOMAIN calls |->
                     calls[idx].score * CountOf(emd_subjects, calls[idx].subject)])
    /\ Len(calls) = 1 =>
         /\ rows(1) = 1..n
         /\ emd_ret.score[1] = calls[1].score * emd_ret.score[2]

C10_Witness ==
  /\ pc = "emd_score_subjects"
  /\ emd_ret.raised = "none"
  /\ emd_subjects = <<1, 2, 1>>
  /\ emd_ret.calls[1].score = 2
  /\ emd_ret.calls[2].score = 1
  /\ emd_ret.score[1] * 3 = emd_ret.score[2] * 5

====
